---- MODULE Spec2Model ----
(***************************************************************************)
(* TaskMatrix: the FastAPI facade (http_server.py) and the interactive     *)
(* demonstration client (tutorial_poc.py).                                 *)
(*                                                                         *)
(* Spec       : the facade.  Requests arrive, wait for the event loop, are *)
(*              validated and handled.  Every route handler is an          *)
(*              `async def` without a single await, and uvicorn.run starts *)
(*              one process with one event loop, so a handler occupies the *)
(*              loop from its first line to its return; send_message       *)
(*              is cut in two at the blocking requests.get call.           *)
(* SpecClient : demo_interactive's loop over VisualChatGPTClient.run_text. *)
(***************************************************************************)
EXTENDS Integers, Sequences, FiniteSets, TLC

VARIABLES
    config,        \* GRADIO_HOST, GRADIO_PORT, HTTP_PORT read at import
    pc,            \* per request: "idle", "queued", "probing", "done"
    req,           \* per request: what the caller sent
    request,       \* per request: send_message's parameter (MessageRequest)
    outcome,       \* per request: what its requests.get call produced
    resp,          \* per request: what the caller received
    probes,        \* the GETs issued to the upstream, in order
    running,       \* the request whose handler occupies the event loop, or 0
    cstate,        \* client: "start", "loop", "exited", "crashed"
    chat_history,  \* client: demo_interactive's chat_history
    lang,          \* client: demo_interactive's lang
    user_input,    \* client: demo_interactive's user_input (last iteration)
    result,        \* client: demo_interactive's result (last iteration)
    last           \* client: the branch the last loop iteration took

server_vars == <<config, pc, req, request, outcome, resp, probes, running>>
client_vars == <<cstate, chat_history, lang, user_input, result, last>>
vars == <<config, pc, req, request, outcome, resp, probes, running,
          cstate, chat_history, lang, user_input, result, last>>

(***************************************************************************)
(* Bounds.                                                                 *)
(***************************************************************************)
NumRequests == 2
MaxHistory == 2

Requests == 1..NumRequests

(***************************************************************************)
(* Values.  Optional[str] is a sequence of length 0 (None) or 1; a text is *)
(* the sequence of the fragments an f-string joins.                        *)
(***************************************************************************)
None == <<>>
Some(x) == <<x>>

PortStr(p) ==
    CASE p = 7861 -> "7861"
      [] p = 7000 -> "7000"
      [] p = 8000 -> "8000"
      [] p = 9000 -> "9000"

Environments ==
    { [GRADIO_HOST |-> None, WEB_PORT |-> None, HTTP_PORT |-> None],
      [GRADIO_HOST |-> Some("gradio"), WEB_PORT |-> Some(7000), HTTP_PORT |-> Some(9000)] }

EnvGet(v, default) == IF v = None THEN default ELSE v[1]

Configuration(env) ==
    [ GRADIO_HOST |-> EnvGet(env.GRADIO_HOST, "localhost"),
      GRADIO_PORT |-> EnvGet(env.WEB_PORT, 7861),
      HTTP_PORT   |-> EnvGet(env.HTTP_PORT, 8000) ]

\* Mutant: the address is the default one, whatever the environment says.
gradio_url_default(cfg) == <<"http://", "localhost", ":", "7861">>

gradio_url(cfg) == <<"http://", cfg.GRADIO_HOST, ":", PortStr(cfg.GRADIO_PORT)>>

(***************************************************************************)
(* What a caller can send.  A body is a JSON object: a function from the   *)
(* field names it holds to their (string) values.                          *)
(***************************************************************************)
Texts == {"hello", "Chinese"}
Bodies == UNION { [D -> Texts] : D \in SUBSET {"message", "language"} }
NoBody == [f \in {} |-> "hello"]

Calls ==
    { [route |-> "/api/message", body |-> b] : b \in Bodies }
    \cup { [route |-> r, body |-> b] : r \in {"/health", "/", "/info"},
                                       b \in {NoBody, [message |-> "hello"]} }

(***************************************************************************)
(* MessageRequest: `message` is required (Field(...)), `language` defaults *)
(* to "English".                                                           *)
(***************************************************************************)
MessageRequestValid(body) == "message" \in DOMAIN body

MessageRequest(body) ==
    [ message  |-> body["message"],
      language |-> IF "language" \in DOMAIN body THEN body["language"] ELSE "English" ]

ValidationError == [status |-> 422, kind |-> "validation"]

(***************************************************************************)
(* What requests.get(f"{gradio_url}/", timeout=5) can produce: a response  *)
(* with a status code, a requests.exceptions.RequestException, or another  *)
(* Exception.                                                              *)
(***************************************************************************)
ProbeOutcomes ==
    { [kind |-> "response", status_code |-> 200, text |-> ""],
      [kind |-> "response", status_code |-> 204, text |-> ""],
      [kind |-> "response", status_code |-> 500, text |-> ""],
      [kind |-> "RequestException", status_code |-> 0, text |-> "Connection refused"],
      [kind |-> "RequestException", status_code |-> 0, text |-> "Read timed out"],
      [kind |-> "Exception", status_code |-> 0, text |-> "unexpected"] }

NoOutcome == [kind |-> "none", status_code |-> 0, text |-> ""]

HTTPException(code, detail) == [status |-> code, kind |-> "HTTPException", detail |-> detail]

MessageResponse(success, reply, error) ==
    [status |-> 200, kind |-> "MessageResponse",
     success |-> success, reply |-> reply, error |-> error]

\* Mutant: no `except HTTPException: raise`, so the catch-all absorbs the 503.
send_message_result_swallow(cfg, o) ==
    IF o.kind = "response"
    THEN IF o.status_code # 200
         THEN MessageResponse(FALSE, None, Some(<<"Gradio service not available">>))
         ELSE MessageResponse(TRUE,
                 Some(<<"TaskMatrix Visual ChatGPT is running. Access the Gradio interface at ">>
                      \o gradio_url(cfg)),
                 None)
    ELSE IF o.kind = "RequestException"
    THEN MessageResponse(FALSE, None, Some(<<"Gradio service unavailable: ", o.text>>))
    ELSE MessageResponse(FALSE, None, Some(<<o.text>>))

\* Mutant: no `except Exception`, so any other exception leaves the handler.
send_message_result_uncaught(cfg, o) ==
    IF o.kind = "response"
    THEN IF o.status_code # 200
         THEN HTTPException(503, <<"Gradio service not available">>)
         ELSE MessageResponse(TRUE,
                 Some(<<"TaskMatrix Visual ChatGPT is running. Access the Gradio interface at ">>
                      \o gradio_url(cfg)),
                 None)
    ELSE IF o.kind = "RequestException"
    THEN HTTPException(503, <<"Gradio service unavailable: ", o.text>>)
    ELSE [status |-> 500, kind |-> "unhandled"]

(***************************************************************************)
(* send_message's try block, given what requests.get produced.             *)
(***************************************************************************)
send_message_result(cfg, o) ==
    IF o.kind = "response"
    THEN IF o.status_code # 200
         THEN HTTPException(503, <<"Gradio service not available">>)
         ELSE MessageResponse(TRUE,
                 Some(<<"TaskMatrix Visual ChatGPT is running. Access the Gradio interface at ">>
                      \o gradio_url(cfg)),
                 None)
    ELSE IF o.kind = "RequestException"
    THEN HTTPException(503, <<"Gradio service unavailable: ", o.text>>)
    ELSE MessageResponse(FALSE, None, Some(<<o.text>>))

(***************************************************************************)
(* The static documents.                                                   *)
(***************************************************************************)
\* Mutant: /health reports the upstream as the probes last saw it.
health_document_live(cfg) ==
    [ status |-> 200, kind |-> "health",
      doc |-> [ status |-> IF \E q \in Requests : outcome[q].kind = "RequestException"
                           THEN "degraded" ELSE "healthy",
                service |-> "TaskMatrix API", version |-> "1.0.0",
                gradio_port |-> cfg.GRADIO_PORT, http_port |-> cfg.HTTP_PORT ] ]

health_document(cfg) ==
    [ status |-> 200, kind |-> "health",
      doc |-> [ status |-> "healthy", service |-> "TaskMatrix API", version |-> "1.0.0",
                gradio_port |-> cfg.GRADIO_PORT, http_port |-> cfg.HTTP_PORT ] ]

root_document(cfg) ==
    [ status |-> 200, kind |-> "root",
      doc |-> [ name |-> "TaskMatrix API", version |-> "1.0.0",
                description |-> "Visual ChatGPT - Multi-Modal AI Assistant",
                endpoints |-> [ health |-> "/health", message |-> "/api/message (POST)",
                                gradio |-> gradio_url(cfg) ] ] ]

info_document(cfg) ==
    [ status |-> 200, kind |-> "info",
      doc |-> [ service |-> "TaskMatrix Visual ChatGPT", version |-> "1.0.0",
                gradio_host |-> cfg.GRADIO_HOST, gradio_port |-> cfg.GRADIO_PORT,
                http_port |-> cfg.HTTP_PORT,
                capabilities |-> << "Image Captioning", "Text to Image Generation",
                                    "Visual Question Answering", "Conversation Memory",
                                    "Multi-language support" >> ] ]

NoResponse == [status |-> 0, kind |-> "none"]
NoCall == [route |-> "", body |-> NoBody]
NoRequest == [message |-> "", language |-> ""]
NoResult == [t |-> "unbound"]

(***************************************************************************)
(* The facade's operations.                                                *)
(***************************************************************************)
LoopFree == running = 0

Arrive(r, c) ==
    /\ pc[r] = "idle"
    /\ pc' = [pc EXCEPT ![r] = "queued"]
    /\ req' = [req EXCEPT ![r] = c]
    /\ UNCHANGED <<config, request, outcome, resp, probes, running>>
    /\ UNCHANGED client_vars

Static(r, route, document) ==
    /\ LoopFree
    /\ pc[r] = "queued"
    /\ req[r].route = route
    /\ resp' = [resp EXCEPT ![r] = document]
    /\ pc' = [pc EXCEPT ![r] = "done"]
    /\ UNCHANGED <<config, req, request, outcome, probes, running>>
    /\ UNCHANGED client_vars

health_check(r) == Static(r, "/health", health_document(config))

root(r) == Static(r, "/", root_document(config))

get_info(r) == Static(r, "/info", info_document(config))

RejectInvalid(r) ==
    /\ LoopFree
    /\ pc[r] = "queued"
    /\ req[r].route = "/api/message"
    /\ ~MessageRequestValid(req[r].body)
    /\ resp' = [resp EXCEPT ![r] = ValidationError]
    /\ pc' = [pc EXCEPT ![r] = "done"]
    /\ UNCHANGED <<config, req, request, outcome, probes, running>>
    /\ UNCHANGED client_vars

\* Mutant: `message` is optional in the model and checked after the probe.
send_message_probe_unvalidated(r) ==
    /\ LoopFree
    /\ pc[r] = "queued"
    /\ req[r].route = "/api/message"
    /\ request' = [request EXCEPT ![r] = IF MessageRequestValid(req[r].body)
                                         THEN MessageRequest(req[r].body)
                                         ELSE NoRequest]
    /\ probes' = Append(probes, [by |-> r, url |-> gradio_url(config) \o <<"/">>, timeout |-> 5])
    /\ running' = r
    /\ pc' = [pc EXCEPT ![r] = "probing"]
    /\ UNCHANGED <<config, req, outcome, resp>>
    /\ UNCHANGED client_vars

send_message_probe(r) ==
    /\ LoopFree
    /\ pc[r] = "queued"
    /\ req[r].route = "/api/message"
    /\ MessageRequestValid(req[r].body)
    /\ request' = [request EXCEPT ![r] = MessageRequest(req[r].body)]
    /\ probes' = Append(probes, [by |-> r, url |-> gradio_url(config) \o <<"/">>, timeout |-> 5])
    /\ running' = r
    /\ pc' = [pc EXCEPT ![r] = "probing"]
    /\ UNCHANGED <<config, req, outcome, resp>>
    /\ UNCHANGED client_vars

\* Mutant: the last probe's outcome is kept in a module global and reused.
send_message_return_cached(r, o) ==
    /\ pc[r] = "probing"
    /\ running = r
    /\ outcome' = [outcome EXCEPT ![r] = o]
    /\ resp' = [resp EXCEPT ![r] =
                  IF \E q \in Requests : q # r /\ outcome[q] # NoOutcome
                  THEN send_message_result(config,
                          outcome[CHOOSE q \in Requests : q # r /\ outcome[q] # NoOutcome])
                  ELSE send_message_result(config, o)]
    /\ running' = 0
    /\ pc' = [pc EXCEPT ![r] = "done"]
    /\ UNCHANGED <<config, req, request, probes>>
    /\ UNCHANGED client_vars

\* Mutant: a failed probe is tried once more before the 503.
send_message_return_retry(r, o) ==
    /\ pc[r] = "probing"
    /\ running = r
    /\ outcome' = [outcome EXCEPT ![r] = o]
    /\ resp' = [resp EXCEPT ![r] = send_message_result(config, o)]
    /\ probes' = IF o.kind = "RequestException"
                 THEN Append(probes, [by |-> r, url |-> gradio_url(config) \o <<"/">>,
                                      timeout |-> 5])
                 ELSE probes
    /\ running' = 0
    /\ pc' = [pc EXCEPT ![r] = "done"]
    /\ UNCHANGED <<config, req, request>>
    /\ UNCHANGED client_vars

\* Mutant: the reply is worded in the request's language.
send_message_return_localized(r, o) ==
    /\ pc[r] = "probing"
    /\ running = r
    /\ outcome' = [outcome EXCEPT ![r] = o]
    /\ resp' = [resp EXCEPT ![r] =
                  IF (o.kind = "response" /\ o.status_code = 200) /\ request[r].language = "Chinese"
                  THEN MessageResponse(TRUE, Some(<<"Chinese: ">> \o gradio_url(config)), None)
                  ELSE send_message_result(config, o)]
    /\ running' = 0
    /\ pc' = [pc EXCEPT ![r] = "done"]
    /\ UNCHANGED <<config, req, request, probes>>
    /\ UNCHANGED client_vars

send_message_return(r, o) ==
    /\ pc[r] = "probing"
    /\ running = r
    /\ outcome' = [outcome EXCEPT ![r] = o]
    /\ resp' = [resp EXCEPT ![r] = send_message_result(config, o)]
    /\ running' = 0
    /\ pc' = [pc EXCEPT ![r] = "done"]
    /\ UNCHANGED <<config, req, request, probes>>
    /\ UNCHANGED client_vars

Init ==
    /\ config \in { Configuration(env) : env \in Environments }
    /\ pc = [r \in Requests |-> "idle"]
    /\ req = [r \in Requests |-> NoCall]
    /\ request = [r \in Requests |-> NoRequest]
    /\ outcome = [r \in Requests |-> NoOutcome]
    /\ resp = [r \in Requests |-> NoResponse]
    /\ probes = <<>>
    /\ running = 0
    /\ cstate = "start"
    /\ chat_history = <<>>
    /\ lang = "English"
    /\ user_input = ""
    /\ result = NoResult
    /\ last = "none"

(***************************************************************************)
(* The demonstration client.  A JSON value is tagged with its Python type. *)
(***************************************************************************)
Dict(f) == [t |-> "dict", items |-> f]
List(q) == [t |-> "list", elems |-> q]
Str(x) == [t |-> "str", chars |-> x]
Num(n) == [t |-> "int", n |-> n]
Raise(e) == [t |-> "raise", exc |-> e]

RequestFailed == Dict([error |-> Str("Request failed")])

\* The JSON documents the upstream may answer POST /run/text with.
UpstreamJson ==
    { Dict([msg |-> Str("ok")]),
      Dict([error |-> Str("busy")]),
      Dict([data |-> Dict([data |-> Str("hi")])]),
      Dict([data |-> List(<<Str("hi")>>)]),
      List(<<Str("hi")>>),
      Num(5) }

InvalidJson == [t |-> "invalid"]

\* What session.get / session.post can produce.
HttpOutcomes ==
    { [kind |-> "RequestException", status_code |-> 0, json |-> InvalidJson],
      [kind |-> "response", status_code |-> 500, json |-> InvalidJson] }
    \cup { [kind |-> "response", status_code |-> 200, json |-> j] :
               j \in UpstreamJson \cup {InvalidJson} }

check_connection(h) == h.kind = "response" /\ h.status_code = 200

\* response.json() raises on a body that is no JSON: a RequestException in
\* requests >= 2.27 (caught at line 100), a plain ValueError before (not
\* caught); `legacy` says which.
run_text(text, history, language, h, legacy) ==
    IF h.kind = "response" /\ h.status_code = 200
    THEN IF h.json = InvalidJson
         THEN IF legacy THEN Raise("ValueError") ELSE RequestFailed
         ELSE h.json
    ELSE RequestFailed

\* Python's `key in value`.
In(key, value) ==
    CASE value.t = "dict" -> key \in DOMAIN value.items
      [] value.t = "list" -> \E i \in 1..Len(value.elems) : value.elems[i] = Str(key)
      [] OTHER -> FALSE
InRaises(value) == value.t \notin {"dict", "list", "str"}

\* Lines 277-286 raise: `in` on a value that is no container, or .get on a
\* "data" entry that is no dict.
ProcessRaises(res) ==
    \/ res.t = "raise"
    \/ InRaises(res)
    \/ /\ ~In("error", res)
       /\ In("data", res)
       /\ (res.t # "dict" \/ res.items["data"].t # "dict")

RawInputs == {"", "  ", "quit", "QUIT", "clear", "lang", "hi", " Hi "}
EOF == "<EOF>"

strip(x) ==
    CASE x = "  " -> ""
      [] x = " Hi " -> "Hi"
      [] OTHER -> x

lower(x) ==
    CASE x = "QUIT" -> "quit"
      [] x = "Hi" -> "hi"
      [] OTHER -> x

Connect(h) ==
    /\ cstate = "start"
    /\ cstate' = IF check_connection(h) THEN "loop" ELSE "exited"
    /\ UNCHANGED <<chat_history, lang, user_input, result, last>>
    /\ UNCHANGED server_vars

\* One iteration of `while True`, lines 248-289.
Iterate(raw, h, legacy) ==
    /\ cstate = "loop"
    /\ IF raw = EOF
       THEN /\ cstate' = "exited"
            /\ last' = "eof"
            /\ UNCHANGED <<chat_history, lang, user_input, result>>
       ELSE /\ user_input' = strip(raw)
            /\ IF strip(raw) = ""
               THEN /\ last' = "empty"
                    /\ UNCHANGED <<cstate, chat_history, lang, result>>
               ELSE IF lower(strip(raw)) = "quit"
               THEN /\ last' = "quit"
                    /\ cstate' = "exited"
                    /\ UNCHANGED <<chat_history, lang, result>>
               ELSE IF lower(strip(raw)) = "clear"
               THEN /\ last' = "clear"
                    /\ chat_history' = <<>>
                    /\ UNCHANGED <<cstate, lang, result>>
               ELSE IF lower(strip(raw)) = "lang"
               THEN /\ last' = "lang"
                    /\ lang' = IF lang = "English" THEN "Chinese" ELSE "English"
                    /\ UNCHANGED <<cstate, chat_history, result>>
               ELSE LET res == run_text(strip(raw), chat_history, lang, h, legacy) IN
                    /\ Len(chat_history) < MaxHistory
                    /\ last' = "query"
                    /\ result' = IF res.t = "raise" THEN result ELSE res
                    /\ UNCHANGED lang
                    /\ IF ProcessRaises(res)
                       THEN cstate' = "crashed" /\ UNCHANGED chat_history
                       ELSE IF In("error", res)
                       THEN UNCHANGED <<cstate, chat_history>>
                       ELSE /\ chat_history' = Append(chat_history, <<strip(raw), res>>)
                            /\ UNCHANGED cstate
    /\ UNCHANGED server_vars

NextClient ==
    \/ \E h \in HttpOutcomes : Connect(h)
    \/ \E raw \in RawInputs \cup {EOF}, h \in HttpOutcomes, legacy \in BOOLEAN :
           Iterate(raw, h, legacy)

SpecClient == Init /\ [][NextClient]_vars

Next ==
    \/ \E r \in Requests, c \in Calls : Arrive(r, c)
    \/ \E r \in Requests : health_check(r)
    \/ \E r \in Requests : root(r)
    \/ \E r \in Requests : get_info(r)
    \/ \E r \in Requests : RejectInvalid(r)
    \/ \E r \in Requests : send_message_probe(r)
    \/ \E r \in Requests, o \in ProbeOutcomes : send_message_return(r, o)

Spec == Init /\ [][Next]_vars

(***************************************************************************)
(* Vocabulary of the properties.                                           *)
(***************************************************************************)
IsMessageCall(r) == pc[r] # "idle" /\ req[r].route = "/api/message"
HasMessage(r) == IsMessageCall(r) /\ "message" \in DOMAIN req[r].body
Answered(r) == pc[r] = "done"
ProbesBy(r) == { i \in 1..Len(probes) : probes[i].by = r }
Address == <<"http://", config.GRADIO_HOST, ":", PortStr(config.GRADIO_PORT)>>
Contains(text, part) ==
    \E i \in 0..(Len(text) - Len(part)) : SubSeq(text, i + 1, i + Len(part)) = part
Status200(o) == o.kind = "response" /\ o.status_code = 200
ProbeFailed(o) ==
    \/ o.kind = "RequestException"
    \/ o.kind = "response" /\ o.status_code \notin 200..299
IsSuccessEnvelope(m) ==
    /\ m.status = 200
    /\ m.kind = "MessageResponse"
    /\ m.success = TRUE
    /\ m.reply # None
    /\ Contains(m.reply[1], Address)
    /\ m.error = None
IsFailureEnvelope(m) ==
    /\ m.status = 200
    /\ m.kind = "MessageResponse"
    /\ m.success = FALSE
    /\ m.reply = None
    /\ m.error # None
Is503(m) == m.status = 503 /\ m.kind = "HTTPException"

C2_UnreachableGives503 ==
    \A r \in Requests :
        (HasMessage(r) /\ Answered(r) /\ ProbeFailed(outcome[r]))
            => (Is503(resp[r]) /\ resp[r].kind # "MessageResponse")

C2_Witness ==
    /\ \E r \in Requests :
        HasMessage(r) /\ Answered(r) /\ outcome[r].kind = "RequestException"
    /\ \E r \in Requests :
        HasMessage(r) /\ Answered(r) /\ outcome[r].kind = "response"
                      /\ outcome[r].status_code = 500

\* C3: a POST /api/message whose body lacks `message` is answered with the
\* validation error, and no probe is ever issued on its behalf.
C3_NoProbeBeforeValidation ==
    \A r \in Requests :
        (IsMessageCall(r) /\ ~HasMessage(r))
            => /\ ProbesBy(r) = {}
               /\ pc[r] # "probing"
               /\ outcome[r] = NoOutcome
               /\ Answered(r) => resp[r] = ValidationError

C3_Witness ==
    \E r \in Requests :
        /\ IsMessageCall(r) /\ ~HasMessage(r) /\ Answered(r)
        /\ "language" \in DOMAIN req[r].body
        /\ Len(probes) > 0

\* C7: every validated POST /api/message issues exactly one probe, and its
\* answer is decided by that probe alone: 503 when it failed, the success
\* envelope when it returned 200, whatever earlier probes returned.
C7_OneProbePerRequest ==
    \A r \in Requests :
        /\ (HasMessage(r) /\ pc[r] \in {"probing", "done"})
                => Cardinality(ProbesBy(r)) = 1
        /\ (HasMessage(r) /\ Answered(r))
                => /\ Status200(outcome[r]) <=> IsSuccessEnvelope(resp[r])
                   /\ (outcome[r].kind # "Exception" /\ ~Status200(outcome[r]))
                          <=> Is503(resp[r])

C7_Witness ==
    \E r, q \in Requests :
        /\ r # q /\ Len(probes) = 2
        /\ HasMessage(r) /\ Answered(r) /\ HasMessage(q) /\ Answered(q)
        /\ probes[1].by = r /\ probes[2].by = q
        /\ ProbeFailed(outcome[r]) /\ Status200(outcome[q])

\* C8: an exception in send_message that is neither the validation failure
\* nor the upstream-unavailable condition is answered with a 200 body with
\* success=false, reply=null and error = the exception's text; every answer
\* of the route is a validation error, a 503, or one of the two envelopes.
C8_OtherExceptionsAbsorbed ==
    \A r \in Requests :
        /\ (HasMessage(r) /\ Answered(r) /\ outcome[r].kind = "Exception")
                => /\ IsFailureEnvelope(resp[r])
                   /\ resp[r].error = Some(<<outcome[r].text>>)
        /\ (IsMessageCall(r) /\ Answered(r))
                => \/ resp[r] = ValidationError
                   \/ Is503(resp[r])
                   \/ IsSuccessEnvelope(resp[r])
                   \/ IsFailureEnvelope(resp[r])

C8_Witness ==
    \E r \in Requests :
        HasMessage(r) /\ Answered(r) /\ outcome[r].kind = "Exception"

StaticRoutes == {"/health", "/", "/info"}
IsStaticCall(r) == pc[r] # "idle" /\ req[r].route \in StaticRoutes
DocumentNow(route) ==
    CASE route = "/health" -> health_document(config)
      [] route = "/" -> root_document(config)
      [] route = "/info" -> info_document(config)

C4_Documents ==
    \A r \in Requests :
        (IsStaticCall(r) /\ Answered(r))
            => /\ resp[r].status = 200
               /\ resp[r] = DocumentNow(req[r].route)
               /\ ProbesBy(r) = {}
               /\ outcome[r] = NoOutcome
               /\ \A q \in Requests :
                      (IsStaticCall(q) /\ Answered(q) /\ req[q].route = req[r].route)
                          => resp[q] = resp[r]

C4_FrameStep ==
    \A r \in Requests :
        (pc[r] = "queued" /\ pc'[r] = "done" /\ req[r].route \in StaticRoutes)
            => /\ UNCHANGED <<config, req, request, outcome, probes, running>>
               /\ \A q \in Requests \ {r} : pc'[q] = pc[q] /\ resp'[q] = resp[q]

\* C4: GET /health, GET / and GET /info always answer 200 with the document
\* the configuration alone determines, the same on every call whatever was
\* sent and whatever was handled before; they issue no probe and change
\* nothing but their own answer.
C4_StaticRoutes == []C4_Documents /\ [][C4_FrameStep]_vars

C4_Witness ==
    \E r, q \in Requests :
        /\ IsStaticCall(r) /\ Answered(r) /\ req[r].body # NoBody
        /\ HasMessage(q) /\ Answered(q) /\ outcome[q].kind = "RequestException"

\* C5: whatever the order in which concurrent POST /api/message requests
\* arrive and are handled, each one's answer is the answer its own probe
\* outcome gives when it is handled alone; nothing another request left
\* behind enters it.
C5_Independent ==
    \A r \in Requests :
        (HasMessage(r) /\ Answered(r))
            => /\ resp[r] = send_message_result(config, outcome[r])
               /\ \A q \in Requests :
                      (HasMessage(q) /\ Answered(q) /\ outcome[q] = outcome[r])
                          => resp[q] = resp[r]

C5_Witness ==
    \E r, q \in Requests :
        /\ r < q /\ Len(probes) = 2
        /\ HasMessage(r) /\ Answered(r) /\ HasMessage(q) /\ Answered(q)
        /\ probes[1].by = q /\ probes[2].by = r
        /\ Status200(outcome[r]) /\ ProbeFailed(outcome[q])

Handle(q) ==
    \/ health_check(q)
    \/ root(q)
    \/ get_info(q)
    \/ RejectInvalid(q)
    \/ send_message_probe(q)

\* C6: while one request waits on its probe, any other request that has
\* arrived can still be started.
C6_NoGlobalSerialization ==
    \A r, q \in Requests :
        (pc[r] = "probing" /\ pc[q] = "queued") => ENABLED Handle(q)

HasErrorKey(res) == res.t = "dict" /\ "error" \in DOMAIN res.items

C10_Step ==
    /\ last' = "clear" => chat_history' = <<>>
    /\ (last' = "query" /\ ~HasErrorKey(result'))
            => chat_history' = Append(chat_history, <<user_input', result'>>)
    /\ (last' \in {"empty", "lang"} \/ (last' = "query" /\ HasErrorKey(result')))
            => chat_history' = chat_history
    /\ last' = "lang" => (lang' # lang /\ lang' \in {"English", "Chinese"})
    /\ last' \in {"quit", "eof"} => (cstate' = "exited" /\ chat_history' = chat_history)

\* C10: in every iteration of the client's loop, 'clear' empties the
\* history, a query whose result has no "error" key appends exactly one
\* (input, result) entry, empty input, 'lang' and failed queries leave the
\* history as it was, and 'quit' or end of input ends the loop.
C10_HistoryDiscipline == [][cstate = "loop" => C10_Step]_vars

====
